---- MODULE Spec2Model ----
(***************************************************************************)
(* XVIZStreamLoader (modules/core/src/loaders/xviz-stream-loader.js):      *)
(* the request-window computation, the seek path, the message dispatch and *)
(* the connect / retry life cycle of the websocket stream loader.          *)
(*                                                                         *)
(* Optional numbers (undefined / null in the source) are sequences of      *)
(* length 0 or 1: Unset is << >>, Some(n) is <<n>>.  The same encoding is   *)
(* used for lastRequest, metadata, logSynchronizer and the loaded range.   *)
(* Transport handles are indices into `sockets`; 0 is null.                *)
(***************************************************************************)
EXTENDS Integers, Sequences, FiniteSets, TLC

VARIABLES
  requestParams,    \* this.requestParams (timestamp, duration, bufferLength, retryAttempts)
  xvizSettings,     \* getXvizSettings(): the ambient playback settings
  socket,           \* this.socket: 0 (null) or a transport handle
  xvizHandler,      \* this.xvizHandler: the transport the controller wraps, 0 before the first open
  lastRequest,      \* this.lastRequest
  metadata,         \* this.get('metadata')
  logSynchronizer,  \* this.get('logSynchronizer')
  streamBuffer,     \* this.streamBuffer: loaded range and version token
  sockets,          \* every transport created by `new this.WebSocketClass(url)`
  retryOps,         \* every PromiseRetry operation started by connect()
  out,              \* what the last handler did: requests sent, events emitted, ...
  env,              \* the scenario: what the consumer and the peer may do
  plan              \* input / result of one stand-alone call of the window planner

vars == <<requestParams, xvizSettings, socket, xvizHandler, lastRequest, metadata,
          logSynchronizer, streamBuffer, sockets, retryOps, out, env, plan>>

loaderVars == <<requestParams, xvizSettings, socket, xvizHandler, lastRequest, metadata,
                logSynchronizer, streamBuffer, sockets, retryOps, out, env>>

----------------------------------------------------------------------------
\* Bounds of the model

MaxSockets == 2
MaxConnects == 2
SeekMaxSockets == 1
SeekMaxConnects == 1
MaxTime == 4
VersionWrap == 2

----------------------------------------------------------------------------
\* Values

Unset == << >>
Some(n) == <<n>>
IsFinite(x) == x # Unset
Truthy(x) == x # Unset /\ x[1] # 0
Min(a, b) == IF a <= b THEN a ELSE b
Max(a, b) == IF a >= b THEN a ELSE b

Null == << >>

DEFAULT_RETRY_ATTEMPTS == 3

\* WebSocket close codes the transport may report: normal closure, "no status", abnormal
CloseCodes == {1000, 1005, 1006}

\* the code of an event that carries none (an exception thrown by the constructor)
NoCode == 0

----------------------------------------------------------------------------
\* Construction

getSocketRequestParams(options) ==
  [timestamp |-> options.timestamp,
   duration |-> options.duration,
   bufferLength |-> options.bufferLength,
   retryAttempts |-> IF options.retryAttempts # Unset
                     THEN options.retryAttempts[1]
                     ELSE DEFAULT_RETRY_ATTEMPTS]

retrySettings == [retries |-> requestParams.retryAttempts]

\* new XvizStreamBuffer({startOffset: -bufferLength, endOffset: bufferLength}) or
\* new XvizStreamBuffer(): the buffer prunes around the playhead only in the first case
bufferIsOffset(params) ==
  Truthy(params.bufferLength) /\ params.bufferLength[1] < params.duration

----------------------------------------------------------------------------
\* The window planner

chunkSizeOf(initalRequestParams, TIME_WINDOW) ==
  IF Truthy(initalRequestParams.bufferLength)
  THEN Min(initalRequestParams.duration, initalRequestParams.bufferLength[1] + TIME_WINDOW)
  ELSE initalRequestParams.duration

clampLoadedRange_dropEnd(start, end, loadedRange) ==
  IF loadedRange # Null /\ loadedRange[1].start <= start /\ loadedRange[1].end > start
  THEN start
  ELSE end

\* lines 99-109: the end of the window after the loaded-range clamp
clampLoadedRange(start, end, loadedRange) ==
  IF loadedRange # Null /\ loadedRange[1].start <= start /\ loadedRange[1].end > start
  THEN start
  ELSE IF loadedRange # Null /\ loadedRange[1].start < end /\ loadedRange[1].end >= end
       THEN loadedRange[1].start
       ELSE end

updateSocketRequestParams(timestamp, initalRequestParams, loadedRange, TIME_WINDOW) ==
  LET totalDuration == initalRequestParams.duration
      initialTimestamp == initalRequestParams.timestamp
      chunkSize == chunkSizeOf(initalRequestParams, TIME_WINDOW)
  IN IF ~IsFinite(timestamp) /\ ~IsFinite(initialTimestamp)
     THEN [timestamp |-> initialTimestamp, duration |-> chunkSize, chunkSize |-> chunkSize]
     ELSE LET start0 == IF IsFinite(timestamp) THEN timestamp[1] ELSE initialTimestamp[1]
              end0 == start0 + chunkSize
              end1 == clampLoadedRange(start0, end0, loadedRange)
              clamp == totalDuration # 0 /\ Truthy(initialTimestamp)
              start == IF clamp THEN Max(start0, initialTimestamp[1]) ELSE start0
              end == IF clamp THEN Min(end1, initialTimestamp[1] + totalDuration) ELSE end1
          IN [timestamp |-> Some(start),
              duration |-> Max(0, end - start),
              chunkSize |-> chunkSize]

----------------------------------------------------------------------------
\* The stream buffer, as the loader uses it

getLoadedTimeRange(buffer) == buffer.range

bumpVersion(v) == (v + 1) % VersionWrap

\* streamBuffer.setCurrentTime(timestamp): an offset buffer keeps
\* [timestamp - bufferLength, timestamp + bufferLength] and drops the rest
setCurrentTime(buffer, timestamp, params) ==
  IF ~bufferIsOffset(params) \/ buffer.range = Null
  THEN buffer
  ELSE LET lo == Max(buffer.range[1].start, timestamp - params.bufferLength[1])
           hi == Min(buffer.range[1].end, timestamp + params.bufferLength[1])
           kept == IF lo <= hi THEN <<[start |-> lo, end |-> hi]>> ELSE Null
       IN IF kept = buffer.range
          THEN buffer
          ELSE [range |-> kept, version |-> bumpVersion(buffer.version)]

\* streamBuffer.insert(message): an accepted timeslice extends the loaded range and
\* bumps the version; a timeslice the buffer does not take leaves it as it is
insert(buffer, ts, accepted) ==
  IF ~accepted
  THEN buffer
  ELSE [range |-> IF buffer.range = Null
                  THEN <<[start |-> ts, end |-> ts]>>
                  ELSE <<[start |-> Min(buffer.range[1].start, ts),
                          end |-> Max(buffer.range[1].end, ts)]>>,
        version |-> bumpVersion(buffer.version)]

----------------------------------------------------------------------------
\* Requests and events

\* what a handler reports of itself; every handler starts from NoOut
NoOut ==
  [op |-> "init", t |-> Unset, code |-> NoCode, sent |-> << >>, events |-> << >>, threw |-> FALSE,
   recorded |-> FALSE, setStreams |-> FALSE, cleared |-> FALSE]

\* XVIZController requests written to transport `to`
openRequest(to) == [to |-> to, kind |-> "open", window |-> Null]
metadataRequest(to) == [to |-> to, kind |-> "metadata", window |-> Null]
playRequest(to, params) == [to |-> to, kind |-> "play", window |-> <<params>>]

----------------------------------------------------------------------------
\* connect(): the retry operation and its attempts

isAbnormalClosure(code) == code > 1000 /\ code # 1005

shouldRetry_abnormalOnly(code, sock) == isAbnormalClosure(code)

\* line 294: retry if abnormal or connection never established
shouldRetry(code, sock) == isAbnormalClosure(code) \/ sock = 0

operationRetry_offByOne(attempts, retries) == attempts <= retries

\* promise-retry: retry() schedules another attempt while retries are left
operationRetry(attempts, retries) == attempts < retries

\* lines 289-298: the attempt's promise was rejected with an event carrying `code`
attemptFailed(ops, s, code, sock) ==
  IF shouldRetry(code, sock)
  THEN IF operationRetry(ops[s].attempts, retrySettings.retries)
       THEN [ops |-> [ops EXCEPT ![s] = [attempts |-> @.attempts + 1, phase |-> "wait"]],
             events |-> <<"error">>, retry |-> TRUE]
       ELSE [ops |-> [ops EXCEPT ![s].phase = "rejected"],
             events |-> <<"error", "error">>, retry |-> FALSE]
  ELSE [ops |-> [ops EXCEPT ![s].phase = "resolved"],
        events |-> <<"error">>, retry |-> FALSE]

\* lines 258-288: one attempt of operation s; the constructor may throw
newAttempt(socks, ops, s, throws, sock) ==
  IF throws
  THEN LET f == attemptFailed(ops, s, NoCode, sock)
       IN [sockets |-> socks, ops |-> f.ops, events |-> f.events,
           created |-> 0, retry |-> f.retry]
  ELSE [sockets |-> Append(socks, [readyState |-> "CONNECTING", op |-> s,
                                   opened |-> FALSE]),
        ops |-> [ops EXCEPT ![s].phase = "pending"],
        events |-> << >>, created |-> Len(socks) + 1, retry |-> FALSE]

\* lines 250-299 past the assertion: a new retry operation and its first attempt
startConnect(socks, ops, throws, sock) ==
  newAttempt(socks, Append(ops, [attempts |-> 0, phase |-> "pending"]),
             Len(ops) + 1, throws, sock)

canAttempt(throws) ==
  /\ throws \in env.throws
  /\ throws \/ Len(sockets) < env.maxSockets

canConnect(throws) ==
  /\ Len(retryOps) < env.maxConnects
  /\ canAttempt(throws)

connect ==
  /\ socket = 0
  /\ \E throws \in BOOLEAN :
       /\ canConnect(throws)
       /\ LET a == startConnect(sockets, retryOps, throws, socket)
          IN /\ sockets' = a.sockets
             /\ retryOps' = a.ops
             /\ out' = [NoOut EXCEPT !.op = "connect", !.events = a.events]
  /\ UNCHANGED <<requestParams, xvizSettings, socket, xvizHandler, lastRequest,
                 metadata, logSynchronizer, streamBuffer, env, plan>>

\* line 251: assert(this.socket === null, 'Socket Manager still connected')
connectAssertFails ==
  /\ socket # 0
  /\ out' = [NoOut EXCEPT !.op = "connect", !.threw = TRUE]
  /\ UNCHANGED <<requestParams, xvizSettings, socket, xvizHandler, lastRequest,
                 metadata, logSynchronizer, streamBuffer, sockets, retryOps, env, plan>>

\* the retry delay of operation s has elapsed
retryTimer(s) ==
  /\ retryOps[s].phase = "wait"
  /\ \E throws \in BOOLEAN :
       /\ canAttempt(throws)
       /\ LET a == newAttempt(sockets, retryOps, s, throws, socket)
          IN /\ sockets' = a.sockets
             /\ retryOps' = a.ops
             /\ out' = [NoOut EXCEPT !.op = "retry", !.events = a.events]
  /\ UNCHANGED <<requestParams, xvizSettings, socket, xvizHandler, lastRequest,
                 metadata, logSynchronizer, streamBuffer, env, plan>>

\* close(), on a list of transports
closeSockets(socks, sock) ==
  IF sock # 0 /\ socks[sock].readyState = "OPEN"
  THEN [socks EXCEPT ![sock].readyState = "CLOSING"]
  ELSE socks

close ==
  /\ sockets' = closeSockets(sockets, socket)
  /\ socket' = 0
  /\ out' = [NoOut EXCEPT !.op = "close"]
  /\ UNCHANGED <<requestParams, xvizSettings, xvizHandler, lastRequest,
                 metadata, logSynchronizer, streamBuffer, retryOps, env, plan>>

----------------------------------------------------------------------------
\* Transport events

handshake_alwaysMetadata(to, request) == metadataRequest(to)

\* lines 316-320: replay the recorded window, or ask for the metadata
handshake(to, request) ==
  IF request # Null THEN playRequest(to, request[1]) ELSE metadataRequest(to)

\* ws.onopen, with _onWSOpen
wsOpen(w) ==
  /\ sockets[w].readyState = "CONNECTING"
  /\ sockets' = [sockets EXCEPT ![w].readyState = "OPEN", ![w].opened = TRUE]
  /\ socket' = w
  /\ xvizHandler' = w
  /\ retryOps' = [retryOps EXCEPT ![sockets[w].op].phase = "resolved"]
  /\ out' = [NoOut EXCEPT !.op = "wsopen",
               !.sent = <<openRequest(w), handshake(w, lastRequest)>>]
  /\ UNCHANGED <<requestParams, xvizSettings, lastRequest, metadata,
                 logSynchronizer, streamBuffer, env, plan>>

\* ws.onclose: _onWSClose, then reject(event), which only a transport that has not
\* opened yet takes notice of
wsClose(w, code) ==
  /\ sockets[w].readyState # "CLOSED"
  /\ LET f == IF sockets[w].opened
              THEN [ops |-> retryOps, events |-> << >>, retry |-> FALSE]
              ELSE attemptFailed(retryOps, sockets[w].op, code, socket)
     IN /\ retryOps' = f.ops
        /\ out' = [NoOut EXCEPT !.op = "wsclose", !.code = code, !.events = f.events]
  /\ sockets' = [sockets EXCEPT ![w].readyState = "CLOSED"]
  /\ UNCHANGED <<requestParams, xvizSettings, socket, xvizHandler, lastRequest,
                 metadata, logSynchronizer, streamBuffer, env, plan>>

\* ws.onerror = this._onWSError
wsError(w) ==
  /\ sockets[w].readyState # "CLOSED"
  /\ out' = [NoOut EXCEPT !.op = "wserror", !.events = <<"error">>]
  /\ UNCHANGED <<requestParams, xvizSettings, socket, xvizHandler, lastRequest,
                 metadata, logSynchronizer, streamBuffer, sockets, retryOps, env, plan>>

----------------------------------------------------------------------------
\* seek

withinRange_strictEnd(bufferStartTime, timestamp, request) ==
  /\ IsFinite(request.timestamp)
  /\ bufferStartTime >= request.timestamp[1]
  /\ timestamp < request.timestamp[1] + request.chunkSize

\* lines 215-218; a comparison with an undefined timestamp is false
withinRange(bufferStartTime, timestamp, request) ==
  /\ IsFinite(request.timestamp)
  /\ bufferStartTime >= request.timestamp[1]
  /\ timestamp <= request.timestamp[1] + request.chunkSize

\* seek(timestamp), `timestamp` being the clamped / rounded getCurrentTime()
seek(timestamp) ==
  LET TIME_WINDOW == xvizSettings.TIME_WINDOW
      bufferStartTime == timestamp - TIME_WINDOW
      pruned == setCurrentTime(streamBuffer, timestamp, requestParams)
      o == [NoOut EXCEPT !.op = "seek", !.t = Some(timestamp),
                         !.setStreams = (pruned.version # streamBuffer.version)]
      params == updateSocketRequestParams(Some(bufferStartTime), requestParams,
                                          getLoadedTimeRange(pruned), TIME_WINDOW)
  IN /\ streamBuffer' = pruned
     /\ IF \/ lastRequest = Null
           \/ withinRange(bufferStartTime, timestamp, lastRequest[1])
           \/ params.duration = 0
        THEN /\ out' = o
             /\ UNCHANGED <<lastRequest, socket, sockets, retryOps>>
        ELSE /\ lastRequest' = <<[params EXCEPT !.timestamp = Some(bufferStartTime)]>>
             /\ IF socket # 0
                THEN /\ out' = [o EXCEPT !.recorded = TRUE,
                                         !.sent = <<playRequest(xvizHandler, params)>>]
                     /\ UNCHANGED <<socket, sockets, retryOps>>
                ELSE \E throws \in BOOLEAN :
                       /\ canConnect(throws)
                       /\ LET a == startConnect(closeSockets(sockets, socket), retryOps,
                                                throws, 0)
                          IN /\ sockets' = a.sockets
                             /\ retryOps' = a.ops
                             /\ socket' = 0
                             /\ out' = [o EXCEPT !.recorded = TRUE,
                                                 !.events = a.events]
     /\ UNCHANGED <<requestParams, xvizSettings, xvizHandler, metadata,
                    logSynchronizer, env, plan>>

----------------------------------------------------------------------------
\* Message dispatch

hasMetadata_never(md) == FALSE

\* line 327: this.get('metadata')
hasMetadata(md) == md # Null

\* ws.onmessage: parseStreamMessage hands the parsed message to _onWSMessage
onMetadata(w, start_time) ==
  LET o == [NoOut EXCEPT !.op = "metadata"]
      params == updateSocketRequestParams(start_time, requestParams,
                                          getLoadedTimeRange(streamBuffer),
                                          xvizSettings.TIME_WINDOW)
  IN IF hasMetadata(metadata)
     THEN /\ out' = o
          /\ UNCHANGED <<lastRequest, metadata, logSynchronizer>>
     ELSE /\ logSynchronizer' = <<[startTime |-> start_time]>>
          /\ lastRequest' = <<params>>
          /\ metadata' = <<[start_time |-> start_time]>>
          /\ out' = [o EXCEPT !.recorded = TRUE,
                              !.sent = <<playRequest(xvizHandler, params)>>,
                              !.events = <<"ready">>]

onTimeslice_neverClears(w, ts) ==
  \E accepted \in BOOLEAN :
    LET inserted == insert(streamBuffer, ts, accepted)
        changed == inserted.version # streamBuffer.version
    IN /\ streamBuffer' = inserted
       /\ out' = [NoOut EXCEPT !.op = "timeslice", !.setStreams = changed,
                                !.events = <<"update">>]

\* lines 346-354
onTimeslice(w, ts) ==
  \E accepted \in BOOLEAN :
    LET o == [NoOut EXCEPT !.op = "timeslice"]
        inserted == insert(streamBuffer, ts, accepted)
        changed == inserted.version # streamBuffer.version
    IN /\ streamBuffer' = inserted
       /\ IF changed /\ logSynchronizer = Null
          THEN \* line 351 dereferences an undefined synchronizer
               out' = [o EXCEPT !.setStreams = TRUE, !.threw = TRUE]
          ELSE \* line 351 clears the synchronizer's _streamsByReverseTime
               out' = [o EXCEPT !.setStreams = changed, !.cleared = changed,
                                !.events = <<"update">>]

onOther_doneSilent(w, type) ==
  out' = [NoOut EXCEPT !.op = type,
            !.events = IF type = "done" THEN << >> ELSE <<"error">>]

\* lines 356-361, and _onWSError as the parser's onError
onOther(w, type) ==
  out' = [NoOut EXCEPT !.op = type,
            !.events = IF type = "done" THEN <<"finish">> ELSE <<"error">>]

wsMessageMetadata(w, start_time) ==
  /\ sockets[w].readyState = "OPEN"
  /\ onMetadata(w, start_time)
  /\ UNCHANGED <<requestParams, xvizSettings, socket, xvizHandler, streamBuffer,
                 sockets, retryOps, env, plan>>

wsMessageTimeslice(w, ts) ==
  /\ sockets[w].readyState = "OPEN"
  /\ onTimeslice(w, ts)
  /\ UNCHANGED <<requestParams, xvizSettings, socket, xvizHandler, lastRequest,
                 metadata, logSynchronizer, sockets, retryOps, env, plan>>

\* done, a message of another type, and a message the parser rejects (onError)
wsMessageOther(w, type) ==
  /\ sockets[w].readyState = "OPEN"
  /\ onOther(w, type)
  /\ UNCHANGED <<requestParams, xvizSettings, socket, xvizHandler, lastRequest,
                 metadata, logSynchronizer, streamBuffer, sockets, retryOps, env, plan>>

----------------------------------------------------------------------------
\* The loader

TimeWindows == {1}
SeekTimeWindows == {1, 2}
OtherTypes == {"done", "unknown", "unparseable"}

\* the constructor's options: defaults only; a start timestamp with a moving
\* buffer; a moving buffer alone
Options ==
  {[timestamp |-> Unset, duration |-> 3, bufferLength |-> Unset, retryAttempts |-> Unset],
   [timestamp |-> Some(2), duration |-> 3, bufferLength |-> Some(1), retryAttempts |-> Some(1)],
   [timestamp |-> Unset, duration |-> 3, bufferLength |-> Some(1), retryAttempts |-> Some(1)]}

\* The constructor of the transport throws for a url it does not accept (a syntax
\* or security error) and for no other: whether it throws is fixed with the url.

\* Scenario of the connection life cycle: several connect() calls and transports,
\* every kind of closure, few timestamps
ConnectionScenario(badUrl) ==
  [maxSockets |-> MaxSockets, maxConnects |-> MaxConnects,
   throws |-> {badUrl}, closeCodes |-> CloseCodes, timeWindows |-> TimeWindows,
   times |-> {1, 2, 3}, sliceTimes |-> {2}, startTimes |-> {Some(1), Some(2)}]

\* Scenario of playback: every timestamp, one reconnect, transports that are lost
SeekScenario(badUrl) ==
  [maxSockets |-> SeekMaxSockets, maxConnects |-> SeekMaxConnects,
   throws |-> {badUrl}, closeCodes |-> {1006}, timeWindows |-> SeekTimeWindows,
   times |-> 0 .. MaxTime, sliceTimes |-> {2},
   startTimes |-> {Unset, Some(0), Some(2)}]

NoPlan == [pc |-> "off"]

InitLoader ==
  /\ \E options \in Options : requestParams = getSocketRequestParams(options)
  /\ \E tw \in env.timeWindows : xvizSettings = [TIME_WINDOW |-> tw]
  /\ socket = 0
  /\ xvizHandler = 0
  /\ lastRequest = Null
  /\ metadata = Null
  /\ logSynchronizer = Null
  /\ streamBuffer = [range |-> Null, version |-> 0]
  /\ sockets = << >>
  /\ retryOps = << >>
  /\ out = NoOut
  /\ plan = NoPlan

Init == (\E badUrl \in BOOLEAN : env = ConnectionScenario(badUrl)) /\ InitLoader

SeekInit == (\E badUrl \in BOOLEAN : env = SeekScenario(badUrl)) /\ InitLoader

Next ==
  \/ connect
  \/ connectAssertFails
  \/ close
  \/ \E t \in env.times : seek(t)
  \/ \E s \in DOMAIN retryOps : retryTimer(s)
  \/ \E w \in DOMAIN sockets : wsOpen(w)
  \/ \E w \in DOMAIN sockets : \E code \in env.closeCodes : wsClose(w, code)
  \/ \E w \in DOMAIN sockets : wsError(w)
  \/ \E w \in DOMAIN sockets : \E st \in env.startTimes : wsMessageMetadata(w, st)
  \/ \E w \in DOMAIN sockets : \E ts \in env.sliceTimes : wsMessageTimeslice(w, ts)
  \/ \E w \in DOMAIN sockets : \E type \in OtherTypes : wsMessageOther(w, type)

\* the connection life cycle
Spec == Init /\ [][Next]_vars

\* playback: seek and the message dispatch
SeekSpec == SeekInit /\ [][Next]_vars

----------------------------------------------------------------------------
\* The window planner on its own: one call, for a loader in any configuration

PlanTimeWindows == {0, 2}
PlanTargets == {Unset} \cup {Some(t) : t \in {-2, 0, 25, 90, 98, 100, 105, 112, 113, 125, 200}}
PlanSessionStarts == {Unset, Some(0), Some(100)}
PlanDurations == {8, 30}
PlanBufferLengths == {Unset, Some(0), Some(10)}
PlanLoadedRanges ==
  {Null} \cup {<<[start |-> r[1], end |-> r[2]]>> :
                 r \in {<<100, 112>>, <<105, 108>>, <<100, 105>>, <<110, 120>>,
                        <<0, 10>>, <<20, 28>>, <<113, 113>>}}

PlanInit ==
  /\ \E ts \in PlanSessionStarts, d \in PlanDurations, bl \in PlanBufferLengths :
       requestParams = getSocketRequestParams(
         [timestamp |-> ts, duration |-> d, bufferLength |-> bl, retryAttempts |-> Unset])
  /\ \E tw \in PlanTimeWindows : xvizSettings = [TIME_WINDOW |-> tw]
  /\ \E r \in PlanLoadedRanges : streamBuffer = [range |-> r, version |-> 0]
  /\ \E t \in PlanTargets : plan = [pc |-> "call", timestamp |-> t, result |-> Null]
  /\ socket = 0
  /\ xvizHandler = 0
  /\ lastRequest = Null
  /\ metadata = Null
  /\ logSynchronizer = Null
  /\ sockets = << >>
  /\ retryOps = << >>
  /\ out = NoOut
  /\ env = ConnectionScenario(FALSE)

planCall ==
  /\ plan.pc = "call"
  /\ plan' = [plan EXCEPT
                !.pc = "done",
                !.result = <<updateSocketRequestParams(plan.timestamp, requestParams,
                                                       getLoadedTimeRange(streamBuffer),
                                                       xvizSettings.TIME_WINDOW)>>]
  /\ UNCHANGED loaderVars

PlanNext == planCall

PlanSpec == PlanInit /\ [][PlanNext]_vars

----------------------------------------------------------------------------
\* Properties

socketsOf(s) == {w \in DOMAIN sockets : sockets[w].op = s}
liveSockets == {w \in DOMAIN sockets : sockets[w].readyState \in {"CONNECTING", "OPEN"}}
playsSent == {i \in DOMAIN out.sent : out.sent[i].kind = "play"}

\* C1: at most one transport is being opened or is open at any time; connect()
\* while a session is present creates no second transport.
C1_SingleSession == Cardinality(liveSockets) <= 1

\* C2: once the active transport has closed, the loader is Disconnected: it never
\* keeps a closed transport as its socket (isOpen() is falsy, connect() is permitted).
C2_ClosedMeansDisconnected ==
  socket # 0 => sockets[socket].readyState # "CLOSED"

\* C3: a seek that records a new window requests it on a live transport: either a
\* play directive goes to a transport that is open, or the loader reconnects
\* (nothing is sent and connect() has run with no socket recorded).
C3_SeekRequestsOnLiveTransport ==
  (out.op = "seek" /\ out.recorded) =>
    \/ /\ playsSent # {}
       /\ \A i \in playsSent : sockets[out.sent[i].to].readyState = "OPEN"
    \/ out.sent = << >> /\ socket = 0 /\ retryOps # << >>

\* the step is the close event of transport w
closes(w) ==
  /\ out'.op = "wsclose"
  /\ sockets[w].readyState # "CLOSED"
  /\ sockets'[w].readyState = "CLOSED"

\* the step is seek(t)
seeks(t) == out'.op = "seek" /\ out'.t = Some(t)

\* C4, state part: an operation never schedules more than N = retries attempts after
\* the first, each attempt opens at most one transport, a rejected operation has
\* used exactly N retries and holds no live transport, and after a single
\* connect() that was rejected no socket is recorded.
C4_RetryInv ==
  \A s \in DOMAIN retryOps :
    /\ retryOps[s].attempts <= retrySettings.retries
    /\ Cardinality(socketsOf(s)) <= retryOps[s].attempts + 1
    /\ retryOps[s].phase = "rejected" =>
         /\ retryOps[s].attempts = retrySettings.retries
         /\ \A w \in socketsOf(s) :
              sockets[w].readyState = "CLOSED" /\ ~sockets[w].opened
         /\ Len(retryOps) = 1 => socket = 0

\* C4, step part: an abnormal closure before Open schedules a retry exactly while
\* retries are left and otherwise rejects the operation; the rejection emits the
\* terminal error event; a rejected operation never attempts again.
C4_RetryStep ==
  /\ \A w \in DOMAIN sockets :
       (closes(w) /\ ~sockets[w].opened /\ isAbnormalClosure(out'.code)) =>
         LET s == sockets[w].op
         IN IF retryOps[s].attempts < retrySettings.retries
            THEN retryOps'[s] = [attempts |-> retryOps[s].attempts + 1, phase |-> "wait"]
            ELSE retryOps'[s] = [retryOps[s] EXCEPT !.phase = "rejected"]
  /\ \A s \in DOMAIN retryOps' :
       (retryOps'[s].phase = "rejected"
          /\ (s \in DOMAIN retryOps => retryOps[s].phase # "rejected")) =>
         /\ out'.events # << >>
         /\ out'.events[Len(out'.events)] = "error"
         /\ Len(sockets') = Len(sockets)
  /\ \A s \in DOMAIN retryOps :
       retryOps[s].phase = "rejected" =>
         /\ retryOps'[s] = retryOps[s]
         /\ \A w \in DOMAIN sockets' \ DOMAIN sockets : sockets'[w].op # s

\* C4: retry bound. With retryAttempts = N and transports that always close
\* abnormally before Open, exactly N reconnection attempts follow the first one,
\* then a terminal error is emitted, no socket is recorded and nothing more is tried.
C4_RetryBound == []C4_RetryInv /\ [][C4_RetryStep]_vars

\* C4 witness: an only operation with N >= 1 whose N + 1 transports all closed
\* before Open has just been rejected, with the terminal error emitted.
C4_Witness ==
  /\ Len(retryOps) = 1
  /\ retryOps[1].phase = "rejected"
  /\ retrySettings.retries >= 1
  /\ Cardinality(socketsOf(1)) = retrySettings.retries + 1
  /\ out.op = "wsclose"
  /\ out.events = <<"error", "error">>
  /\ socket = 0

retryScheduled(s) == retryOps'[s].attempts = retryOps[s].attempts + 1

\* C5 as stated: neither the closure of a transport that had reached Open nor a
\* clean closure schedules a reconnection attempt.
C5_CleanCloseNeverRetries ==
  [][\A w \in DOMAIN sockets :
       (closes(w) /\ (sockets[w].opened \/ ~isAbnormalClosure(out'.code))) =>
         ~retryScheduled(sockets[w].op)]_vars

\* C5 amended: the closure of a transport that had reached Open never schedules a
\* retry and its operation stays resolved; the closure of a transport that had not
\* reached Open schedules a retry exactly when retries are left and the closure is
\* abnormal or the loader has no socket recorded (a clean closure included); a
\* close event itself creates no transport.
C5_RetryOnlyBeforeOpen ==
  /\ [](\A w \in DOMAIN sockets :
          sockets[w].opened => retryOps[sockets[w].op].phase = "resolved")
  /\ [][\A w \in DOMAIN sockets :
          closes(w) =>
            /\ sockets' = [sockets EXCEPT ![w].readyState = "CLOSED"]
            /\ retryScheduled(sockets[w].op) <=>
                 /\ ~sockets[w].opened
                 /\ isAbnormalClosure(out'.code) \/ socket = 0
                 /\ retryOps[sockets[w].op].attempts < retrySettings.retries]_vars

\* C5 witness: the only transport reached Open and has then closed, and no retry
\* is pending.
C5_Witness ==
  /\ Len(sockets) = 1
  /\ sockets[1].opened
  /\ sockets[1].readyState = "CLOSED"
  /\ out.op = "wsclose"
  /\ retryOps[1] = [attempts |-> 0, phase |-> "resolved"]

\* C6: every play directive that is sent carries a duration > 0.
C6_NoZeroDurationPlay ==
  \A i \in playsSent : out.sent[i].window[1].duration > 0

noFetch ==
  /\ lastRequest' = lastRequest
  /\ out'.sent = << >>
  /\ retryOps' = retryOps
  /\ sockets' = sockets

\* C7 as stated: with a recorded lastRequest, a seek to a timestamp inside
\* [lastRequest.timestamp, lastRequest.timestamp + chunkSize - TIME_WINDOW] sends
\* nothing, does not reconnect and leaves lastRequest unchanged.
C7_IdempotentSeek ==
  [][\A t \in env.times :
       (/\ seeks(t)
        /\ lastRequest # Null
        /\ IsFinite(lastRequest[1].timestamp)
        /\ lastRequest[1].timestamp[1] <= t
        /\ t <= lastRequest[1].timestamp[1] + lastRequest[1].chunkSize
                  - xvizSettings.TIME_WINDOW)
       => noFetch]_vars

\* C7 amended: the same for a (clamped) timestamp inside
\* [lastRequest.timestamp + TIME_WINDOW, lastRequest.timestamp + chunkSize].
C7_IdempotentSeekInWindow ==
  [][\A t \in env.times :
       (/\ seeks(t)
        /\ lastRequest # Null
        /\ IsFinite(lastRequest[1].timestamp)
        /\ lastRequest[1].timestamp[1] + xvizSettings.TIME_WINDOW <= t
        /\ t <= lastRequest[1].timestamp[1] + lastRequest[1].chunkSize)
       => noFetch]_vars

\* C7 witness: with a socket recorded, a seek to the far end of the window of
\* lastRequest has just run and has sent nothing.
C7_Witness ==
  /\ out.op = "seek"
  /\ out.sent = << >>
  /\ socket # 0
  /\ lastRequest # Null
  /\ IsFinite(lastRequest[1].timestamp)
  /\ lastRequest[1].chunkSize > xvizSettings.TIME_WINDOW
  /\ out.t = Some(lastRequest[1].timestamp[1] + lastRequest[1].chunkSize)

----------------------------------------------------------------------------
\* Properties of the window planner

planned == plan.pc = "done"
window == plan.result[1]
sessionStart == requestParams.timestamp
totalDuration == requestParams.duration
loadedRange == getLoadedTimeRange(streamBuffer)

\* C8: the planned window lies inside the session bounds:
\* sessionStart <= timestamp and timestamp + duration <= sessionStart + totalDuration.
C8_SessionBoundRespecting ==
  (planned /\ IsFinite(sessionStart)) =>
    /\ sessionStart[1] <= window.timestamp[1]
    /\ window.timestamp[1] + window.duration <= sessionStart[1] + totalDuration

overlapsLoadedRange ==
  /\ loadedRange # Null
  /\ IsFinite(window.timestamp)
  /\ window.duration > 0
  /\ window.timestamp[1] < loadedRange[1].end
  /\ loadedRange[1].start < window.timestamp[1] + window.duration

\* C9 as stated: a planned window with duration > 0 does not overlap the loaded
\* range: [timestamp, timestamp + duration) and [start, end) are disjoint.
C9_NeverRerequestsLoaded == planned => ~overlapsLoadedRange

\* the window before any clamp: from the target (else sessionStart), chunkSize long
unclampedStart ==
  IF IsFinite(plan.timestamp) THEN plan.timestamp[1] ELSE sessionStart[1]

\* C9 amended: a planned window with duration > 0 overlaps the loaded range only
\* when the loaded range lies strictly inside the unclamped window
\* [start, start + chunkSize); a window whose unclamped start or end falls inside
\* the loaded range never overlaps it.
C9_OverlapOnlyWhenSpanning ==
  (planned /\ overlapsLoadedRange) =>
    /\ unclampedStart < loadedRange[1].start
    /\ loadedRange[1].end < unclampedStart + window.chunkSize

\* C9 witness: the unclamped end falls inside the loaded range and the planner
\* returns the non-empty window that precedes the loaded range.
C9_Witness ==
  /\ planned
  /\ loadedRange # Null
  /\ IsFinite(plan.timestamp)
  /\ plan.timestamp[1] < loadedRange[1].start
  /\ loadedRange[1].start < plan.timestamp[1] + window.chunkSize
  /\ plan.timestamp[1] + window.chunkSize <= loadedRange[1].end
  /\ window.duration > 0
  /\ window.timestamp[1] + window.duration = loadedRange[1].start

\* planWindow, steps 1-6 as the specification words them ("is set", not "is truthy")
planWindow(targetTimestamp, start, total, bufferLength, range, TIME_WINDOW) ==
  LET chunkSize == IF bufferLength # Unset
                   THEN Min(total, bufferLength[1] + TIME_WINDOW)
                   ELSE total
  IN IF targetTimestamp = Unset /\ start = Unset
     THEN [timestamp |-> Unset, duration |-> chunkSize, chunkSize |-> chunkSize]
     ELSE LET s0 == IF targetTimestamp # Unset THEN targetTimestamp[1] ELSE start[1]
              e0 == s0 + chunkSize
              e1 == IF range # Null /\ range[1].start <= s0 /\ s0 < range[1].end
                    THEN s0
                    ELSE IF range # Null /\ range[1].start < e0 /\ e0 <= range[1].end
                         THEN range[1].start
                         ELSE e0
              s2 == IF start # Unset THEN Max(s0, start[1]) ELSE s0
              e2 == IF start # Unset THEN Min(e1, start[1] + total) ELSE e1
          IN [timestamp |-> Some(s2), duration |-> Max(0, e2 - s2), chunkSize |-> chunkSize]

\* C10: for every target, sessionStart (set or unset, 0 included), totalDuration,
\* bufferLength and loaded range the planner returns exactly the window of steps
\* 1-6 of planWindow.
C10_PlannerIsPlanWindow ==
  planned =>
    window = planWindow(plan.timestamp, sessionStart, totalDuration,
                        requestParams.bufferLength, loadedRange,
                        xvizSettings.TIME_WINDOW)

----------------------------------------------------------------------------
\* Properties of the message dispatch

\* the step is the dispatch of a metadata message
metadataStep == out'.op = "metadata"

\* C11: metadata is first-wins. Once accepted the metadata is kept for good; a
\* ready event and an initialization of the synchronizer happen only in the step
\* that accepts the first metadata; a metadata message that arrives later sends
\* nothing and leaves lastRequest, the synchronizer and the metadata as they are.
C11_MetadataFirstWins ==
  [][/\ metadata # Null => metadata' = metadata
     /\ (\E i \in DOMAIN out'.events : out'.events[i] = "ready") =>
          /\ metadataStep
          /\ metadata = Null /\ metadata' # Null
          /\ out'.events = <<"ready">>
     /\ logSynchronizer' # logSynchronizer =>
          /\ metadataStep
          /\ metadata = Null /\ logSynchronizer = Null
     /\ (metadataStep /\ metadata # Null) =>
          /\ out'.sent = << >>
          /\ out'.events = << >>
          /\ lastRequest' = lastRequest
          /\ logSynchronizer' = logSynchronizer]_vars

\* C11 witness: after a reconnect, with metadata accepted earlier, a metadata
\* message has just been dispatched on the second transport and was ignored.
C11_Witness ==
  /\ out.op = "metadata"
  /\ out.events = << >>
  /\ out.sent = << >>
  /\ metadata # Null
  /\ logSynchronizer # Null
  /\ Len(sockets) = 2
  /\ socket = 2

\* the requests of the step other than the controller's open(requestParams)
requestsSent == {i \in DOMAIN out'.sent : out'.sent[i].kind # "open"}

timesliceStep == out'.op = "timeslice"

\* the insert of the step changed the version of the buffer
versionChanged == streamBuffer'.version # streamBuffer.version

\* C13: for every timeslice the stream set is republished exactly when the insert
\* changed the version of the buffer, and exactly one update event is emitted
\* whether it changed or not.
C13_VersionGatedRepublish ==
  [][timesliceStep =>
       /\ out'.setStreams <=> versionChanged
       /\ out'.events = <<"update">>]_vars

C15_DoneAndUnknownOnlyEmit ==
  [][out'.op \in {"done", "unknown"} =>
       /\ out'.events = IF out'.op = "done" THEN <<"finish">> ELSE <<"error">>
       /\ out'.sent = << >>
       /\ ~out'.threw
       /\ UNCHANGED <<sockets, socket, xvizHandler, retryOps, lastRequest,
                      streamBuffer, metadata, logSynchronizer, requestParams>>]_vars

\* C15 witness: during playback (a window recorded, the transport open) a done
\* message has just been dispatched: finish emitted, the transport still open.
C15_Witness ==
  /\ out.op = "done"
  /\ out.events = <<"finish">>
  /\ lastRequest # Null
  /\ streamBuffer.range # Null
  /\ socket # 0
  /\ sockets[socket].readyState = "OPEN"

emitsError == \E i \in DOMAIN out'.events : out'.events[i] = "error"

\* C16: no error is dropped silently: every abnormal closure of a transport,
\* before or after it reached Open, every refused connection attempt and every
\* unparseable or unexpected message emits at least one error event.
C16_NoErrorDropped ==
  [][/\ \A w \in DOMAIN sockets :
          (closes(w) /\ isAbnormalClosure(out'.code)) => emitsError
     /\ out'.op \in {"unknown", "unparseable"} => emitsError
     /\ (out'.op \in {"connect", "retry"} /\ Len(sockets') = Len(sockets) /\ ~out'.threw)
          => emitsError]_vars

----------------------------------------------------------------------------
\* Properties of seek

\* C17: whenever seek sends a play directive, the window it carries (timestamp,
\* duration, chunkSize) is the window the same seek recorded as lastRequest.
C17_LiveWindowIsRecorded ==
  (out.op = "seek" /\ out.sent # << >>) =>
    /\ out.recorded
    /\ \A i \in DOMAIN out.sent :
         /\ out.sent[i].kind = "play"
         /\ out.sent[i].window = lastRequest

\* the windows the last seek requested: sent live, or recorded for the replay
seekWindows ==
  {out.sent[i].window[1] : i \in DOMAIN out.sent} \cup
  (IF out.recorded THEN {lastRequest[1]} ELSE {})

\* C18: with a moving buffer (bufferLength set and smaller than the total
\* duration), every window requested by seek(t) lies inside the window the buffer
\* retains around the playhead: [t - bufferLength, t + bufferLength].
C18_BufferCoversChunk ==
  (out.op = "seek" /\ bufferIsOffset(requestParams)) =>
    \A win \in seekWindows :
      /\ out.t[1] - requestParams.bufferLength[1] <= win.timestamp[1]
      /\ win.timestamp[1] + win.duration <= out.t[1] + requestParams.bufferLength[1]

\* the same for a TIME_WINDOW that is not larger than bufferLength
C18_CoveredWhenWindowFits ==
  (/\ bufferIsOffset(requestParams)
   /\ xvizSettings.TIME_WINDOW <= requestParams.bufferLength[1]) => C18_BufferCoversChunk

----------------------------------------------------------------------------
\* Properties of close

\* C19: after close() the loader stays disconnected until connect() or seek() is
\* invoked: the step that follows close(), unless it is one of these calls (or
\* close() again), records no transport as the socket and sends no metadata or
\* play request - a transport of an earlier connect() that is still being opened
\* included.
C19_CloseStaysDisconnected ==
  [][(out.op = "close" /\ out'.op \notin {"connect", "seek", "close"}) =>
       /\ socket' = 0
       /\ requestsSent = {}]_vars

----------------------------------------------------------------------------
\* Properties of the timeslice handler

\* C20: a timeslice is handled without failure in every reachable state: when the
\* insert changed the version of the buffer a synchronizer exists, also before
\* any metadata was accepted, and the handler emits update.
C20_TimesliceNeverFails ==
  out.op = "timeslice" =>
    /\ ~out.threw
    /\ out.setStreams => logSynchronizer # Null
    /\ out.events = <<"update">>

====
